---- MODULE Spec2Model ----
(***************************************************************************)
(* A model of DrawingScoring.py: the category store kept in                *)
(* art_categories.json (add_category), the interpreter of the AI's text    *)
(* (process_ai_response) and the pipeline around it (analyze_drawing).     *)
(*                                                                         *)
(* Strings are sequences of one-character strings.  A text handed to the   *)
(* interpreter is a sequence of tokens: braces, whitespace, prose, commas  *)
(* and whole members ("key": value) of a JSON object.  Python values are   *)
(* records tagged with their type.  A call is one step; the caller then    *)
(* takes the result (Consume) before it calls again.                       *)
(***************************************************************************)
EXTENDS Integers, Sequences, FiniteSets, TLC

\* ------------------------------------------------------------------ bounds

\* longest category name the AI or a caller supplies
MaxNameLen == 2
\* the registry is not grown beyond this many entries
MaxCats == 2
\* longest text of free tokens handed to the interpreter
MaxLen == 2

\* ------------------------------------------------------------------ strings

Alphabet == {"a", "A"}

UpperChars == <<"A", "L", "S", "P">>
LowerChars == <<"a", "l", "s", "p">>

\* str.lower() on one character
LowerChar(c) ==
  IF \E i \in DOMAIN UpperChars : UpperChars[i] = c
  THEN LowerChars[CHOOSE i \in DOMAIN UpperChars : UpperChars[i] = c]
  ELSE c

\* str.lower()
Lower(s) == [i \in DOMAIN s |-> LowerChar(s[i])]

\* the literal 'unknown'
unknown == <<"u", "n", "k", "n", "o", "w", "n">>

SeqsUpTo(S, n) == UNION {[1..k -> S] : k \in 0..n}

Landscape == <<"L", "a", "n", "d", "s", "c", "a", "p", "e">>
landscape == <<"l", "a", "n", "d", "s", "c", "a", "p", "e">>

\* category names: any case variant of a short name, 'Landscape', and the
\* default 'unknown'
Names == (SeqsUpTo(Alphabet, MaxNameLen) \ {<<>>}) \cup {Landscape, unknown}

\* ------------------------------------------------------------------ Python values

JStr(s) == [t |-> "str", s |-> s, n |-> 0]
JInt(n) == [t |-> "int", s |-> <<>>, n |-> n]
\* a float, held in tenths: JFloat(47) is 4.7
JFloat(n) == [t |-> "float", s |-> <<>>, n |-> n]
JNull == [t |-> "null", s |-> <<>>, n |-> 0]
JList == [t |-> "list", s |-> <<>>, n |-> 0]
\* no value: the key is not in the object
JAbsent == [t |-> "absent", s |-> <<>>, n |-> 0]

\* ------------------------------------------------------------------ exceptions

\* the direct base class of each exception the program can meet
BaseOf(e) ==
  CASE e = "JSONDecodeError" -> "ValueError"
    [] e = "ValueError" -> "Exception"
    [] e = "KeyError" -> "LookupError"
    [] e = "IndexError" -> "LookupError"
    [] e = "LookupError" -> "Exception"
    [] e = "FileNotFoundError" -> "OSError"
    [] e = "OSError" -> "Exception"
    [] e = "AttributeError" -> "Exception"
    [] e = "TypeError" -> "Exception"
    [] e = "APIConnectionError" -> "Exception"
    [] OTHER -> "BaseException"

RECURSIVE IsInstance(_, _)
\* isinstance(e, cls), as an except clause decides it
IsInstance(e, cls) ==
  IF e = cls THEN TRUE
  ELSE IF e = "BaseException" THEN FALSE
  ELSE IsInstance(BaseOf(e), cls)

\* ------------------------------------------------------------------ the category store

\* the value under "categories": a list of entries, a string, null, a number,
\* or no such key
CatsList(items) == [t |-> "list", s |-> <<>>, items |-> items]
CatsStr(s) == [t |-> "str", s |-> s, items |-> <<>>]
CatsOther(t) == [t |-> t, s |-> <<>>, items |-> <<>>]

\* art_categories.json: missing, not JSON, a top-level list, or an object
FileMissing == [kind |-> "missing", cats |-> CatsOther("absent")]
FileInvalidJson == [kind |-> "invalid_json", cats |-> CatsOther("absent")]
FileTopList == [kind |-> "list", cats |-> CatsOther("absent")]
FileObject(cats) == [kind |-> "object", cats |-> cats]

\* what a call leaves behind: how it ended, its value or exception, the file,
\* how many times it wrote the file, and the names add_category returned in it
Returned(val, f, w, seen) ==
  [kind |-> "return", exc |-> "", val |-> val, file |-> f, writes |-> w, seen |-> seen]
Raised(exc, f, w, seen) ==
  [kind |-> "raise", exc |-> exc, val |-> <<>>, file |-> f, writes |-> w, seen |-> seen]

\* lines 35-36: what open and json.load raise
read_error(f) ==
  CASE f.kind = "missing" -> "FileNotFoundError"
    [] f.kind = "invalid_json" -> "JSONDecodeError"
    [] f.kind = "list" -> "AttributeError"
    [] OTHER -> ""

\* line 38: except (FileNotFoundError, json.JSONDecodeError)
load_except(e) == IsInstance(e, "FileNotFoundError") \/ IsInstance(e, "JSONDecodeError")

\* lines 34-39: the categories value, or the exception that escapes the try
load_categories(f) ==
  LET e == read_error(f)
  IN IF e # ""
     THEN IF load_except(e)
          THEN [exc |-> "", cats |-> CatsList(<<>>)]
          ELSE [exc |-> e, cats |-> CatsOther("absent")]
     ELSE IF f.cats.t = "absent"
          THEN [exc |-> "", cats |-> CatsList(<<>>)]
          ELSE [exc |-> "", cats |-> f.cats]

\* what `for cat in categories` yields: the entries of a list, the characters
\* of a string
Elements(c) ==
  IF c.t = "list" THEN c.items
  ELSE [i \in DOMAIN c.s |-> JStr(<<c.s[i]>>)]

RECURSIVE any_exists(_, _, _)
\* line 42: any(category_name_lower == cat.lower() for cat in categories),
\* left to right: "True", "False", or the exception cat.lower() raises
any_exists(category_name_lower, elems, i) ==
  IF i > Len(elems) THEN "False"
  ELSE IF elems[i].t # "str" THEN "AttributeError"
  ELSE IF category_name_lower = Lower(elems[i].s) THEN "True"
  ELSE any_exists(category_name_lower, elems, i + 1)

\* lower_of without the call to lower(): the name is kept as given
lower_of_as_given(category_name) == category_name.s

\* line 30: category_name.lower()
lower_of(category_name) == Lower(category_name.s)

\* existing_category with the list written back although nothing changed
existing_category_rewrites(category_name_lower, f) ==
  Returned(<<category_name_lower, 1>>, f, 1, {category_name_lower})

\* lines 43-44: the category exists; nothing is written
existing_category(category_name_lower, f) ==
  Returned(<<category_name_lower, 1>>, f, 0, {category_name_lower})

\* append_category starting a new list instead of appending
append_category_replaces(items, category_name_lower) ==
  <<JStr(category_name_lower)>>

\* line 47: categories.append(category_name_lower)
append_category(items, category_name_lower) ==
  Append(items, JStr(category_name_lower))

\* lines 47-50: the category is new; the whole list is written once
new_category(category_name_lower, categories) ==
  Returned(<<category_name_lower, 10>>,
           FileObject(CatsList(append_category(categories.items, category_name_lower))),
           1, {category_name_lower})

\* lines 41-50, once the categories are loaded
add_loaded(f, category_name_lower, categories, found) ==
  IF found = "True" THEN existing_category(category_name_lower, f)
  ELSE IF found # "False" THEN Raised(found, f, 0, {})
  ELSE IF categories.t # "list" THEN Raised("AttributeError", f, 0, {})
  ELSE new_category(category_name_lower, categories)

\* lines 30-50 for a name that is a string
add_lowered(f, category_name_lower, loaded) ==
  IF loaded.exc # "" THEN Raised(loaded.exc, f, 0, {})
  ELSE IF loaded.cats.t \notin {"list", "str"} THEN Raised("TypeError", f, 0, {})
  ELSE add_loaded(f, category_name_lower, loaded.cats,
                  any_exists(category_name_lower, Elements(loaded.cats), 1))

\* lines 19-50
add_category(f, category_name) ==
  IF category_name.t # "str" THEN Raised("AttributeError", f, 0, {})
  ELSE add_lowered(f, lower_of(category_name), load_categories(f))

\* ------------------------------------------------------------------ the AI's text

\* tokens of a text: "{", "}", whitespace, a character of prose, ",", and a
\* member "key": value of an object
Tok(k) == [tok |-> k, key |-> "", val |-> JAbsent]
LBrace == Tok("{")
RBrace == Tok("}")
Space == Tok(" ")
Prose == Tok("x")
Comma == Tok(",")
Member(k, v) == [tok |-> "member", key |-> k, val |-> v]

RECURSIVE LStrip(_, _)
LStrip(s, ws) == IF s # <<>> /\ Head(s) = ws THEN LStrip(Tail(s), ws) ELSE s

RECURSIVE RStrip(_, _)
RStrip(s, ws) ==
  IF s # <<>> /\ s[Len(s)] = ws THEN RStrip(SubSeq(s, 1, Len(s) - 1), ws) ELSE s

\* str.strip() of a text of tokens
Strip(s) == RStrip(LStrip(s, Space), Space)

\* str.strip() of a string of characters, as int() does first
StripChars(s) == RStrip(LStrip(s, " "), " ")

\* str.find(c): the 0-based index of the first c, or -1
Find(s, c) ==
  IF \E i \in DOMAIN s : s[i] = c
  THEN (CHOOSE i \in DOMAIN s : s[i] = c /\ \A j \in 1..(i - 1) : s[j] # c) - 1
  ELSE -1

\* str.rfind(c): the 0-based index of the last c, or -1
RFind(s, c) ==
  IF \E i \in DOMAIN s : s[i] = c
  THEN (CHOOSE i \in DOMAIN s : s[i] = c /\ \A j \in (i + 1)..Len(s) : s[j] # c) - 1
  ELSE -1

\* a slice bound as Python clips it: negative counts from the end
SliceBound(i, n) ==
  IF i < 0 THEN (IF n + i < 0 THEN 0 ELSE n + i)
  ELSE IF i > n THEN n ELSE i

\* s[lo:hi]
Slice(s, lo, hi) ==
  LET a == SliceBound(lo, Len(s))
      b == SliceBound(hi, Len(s))
  IN IF b <= a THEN <<>> ELSE SubSeq(s, a + 1, b)

NotSpace(t) == t # Space

\* json.loads of a text: an object "{" member "," member ... "}" with
\* whitespace anywhere between tokens, else JSONDecodeError
json_loads(json_str) ==
  LET body == SelectSeq(json_str, NotSpace)
      n == Len(body)
      inner == SubSeq(body, 2, n - 1)
      wellformed ==
        /\ n >= 2
        /\ body[1] = LBrace
        /\ body[n] = RBrace
        /\ \/ inner = <<>>
           \/ /\ Len(inner) % 2 = 1
              /\ \A i \in DOMAIN inner :
                   IF i % 2 = 1 THEN inner[i].tok = "member" ELSE inner[i] = Comma
  IN IF wellformed
     THEN [exc |-> "", members |-> SelectSeq(inner, LAMBDA t : t.tok = "member")]
     ELSE [exc |-> "JSONDecodeError", members |-> <<>>]

\* dict.get(key, default): of a repeated key the last member counts
Get(analysis, key, default) ==
  IF \E i \in DOMAIN analysis : analysis[i].key = key
  THEN analysis[CHOOSE i \in DOMAIN analysis :
                  /\ analysis[i].key = key
                  /\ \A j \in (i + 1)..Len(analysis) : analysis[j].key # key].val
  ELSE default

Digits == <<"0", "1", "2", "3", "4", "5", "6", "7", "8", "9">>

IsDigit(c) == \E i \in DOMAIN Digits : Digits[i] = c
DigitVal(c) == (CHOOSE i \in DOMAIN Digits : Digits[i] = c) - 1

RECURSIVE NatStr(_)
NatStr(n) ==
  IF n < 10 THEN <<Digits[n + 1]>> ELSE NatStr(n \div 10) \o <<Digits[(n % 10) + 1]>>

Abs(n) == IF n < 0 THEN -n ELSE n
Sign(n) == IF n < 0 THEN <<"-">> ELSE <<>>

\* str(value)
py_str(v) ==
  CASE v.t = "str" -> v.s
    [] v.t = "int" -> Sign(v.n) \o NatStr(Abs(v.n))
    [] v.t = "float" -> Sign(v.n) \o NatStr(Abs(v.n) \div 10) \o <<".">>
                        \o <<Digits[(Abs(v.n) % 10) + 1]>>
    [] v.t = "null" -> <<"N", "o", "n", "e">>
    [] OTHER -> <<"[", "]">>

RECURSIVE DigitsVal(_, _)
DigitsVal(s, acc) ==
  IF s = <<>> THEN acc ELSE DigitsVal(Tail(s), 10 * acc + DigitVal(Head(s)))

\* int(value): the number, or the exception int raises
py_int(v) ==
  CASE v.t = "int" -> [exc |-> "", n |-> v.n]
    [] v.t = "float" ->
         [exc |-> "", n |-> IF v.n < 0 THEN -(Abs(v.n) \div 10) ELSE v.n \div 10]
    [] v.t = "str" ->
         LET body == StripChars(v.s)
             signed == body # <<>> /\ Head(body) \in {"-", "+"}
             digits == IF signed THEN Tail(body) ELSE body
         IN IF digits # <<>> /\ \A i \in DOMAIN digits : IsDigit(digits[i])
            THEN [exc |-> "",
                  n |-> IF signed /\ Head(body) = "-"
                        THEN -DigitsVal(digits, 0) ELSE DigitsVal(digits, 0)]
            ELSE [exc |-> "ValueError", n |-> 0]
    [] OTHER -> [exc |-> "TypeError", n |-> 0]

\* the fallback tuple (0, "unknown", 0, "unknown")
Sentinel == <<0, unknown, 0, unknown>>

\* process_except with a handler for KeyError alone
process_except_key_only(e) == IsInstance(e, "KeyError")

\* line 131: except (json.JSONDecodeError, KeyError, ValueError)
process_except(e) ==
  \/ IsInstance(e, "JSONDecodeError")
  \/ IsInstance(e, "KeyError")
  \/ IsInstance(e, "ValueError")

\* lines 131-134: an exception raised in the try block, with the file as the
\* block left it
process_handler(e, f, w, seen) ==
  IF process_except(e) THEN Returned(Sentinel, f, w, seen) ELSE Raised(e, f, w, seen)

\* process_scored with the category score left out of the total
process_scored_detail_only(added, name_of_drawing, detail_score) ==
  IF added.kind = "raise"
  THEN process_handler(added.exc, added.file, added.writes, added.seen)
  ELSE IF detail_score.exc # ""
  THEN process_handler(detail_score.exc, added.file, added.writes, added.seen)
  ELSE Returned(<<detail_score.n, added.val[1], detail_score.n, name_of_drawing>>,
                added.file, added.writes, added.seen)

\* lines 126-129, or the handler when add_category or int() raised
process_scored(added, name_of_drawing, detail_score) ==
  IF added.kind = "raise"
  THEN process_handler(added.exc, added.file, added.writes, added.seen)
  ELSE IF detail_score.exc # ""
  THEN process_handler(detail_score.exc, added.file, added.writes, added.seen)
  ELSE Returned(<<added.val[2] + detail_score.n, added.val[1],
                  detail_score.n, name_of_drawing>>,
                added.file, added.writes, added.seen)

\* lines 117-123: add_category first, then str(Name), then int(detail_count)
process_analysis(f, analysis) ==
  process_scored(add_category(f, Get(analysis, "detected_category", JStr(unknown))),
                 py_str(Get(analysis, "Name", JStr(unknown))),
                 py_int(Get(analysis, "detail_count", JInt(0))))

\* line 112 and what follows it
process_loaded(f, loaded) ==
  IF loaded.exc # "" THEN process_handler(loaded.exc, f, 0, {})
  ELSE process_analysis(f, loaded.members)

\* lines 110-115
process_found(f, stripped, start_idx, end_idx) ==
  IF start_idx # -1 /\ end_idx # -1
  THEN process_loaded(f, json_loads(Slice(stripped, start_idx, end_idx)))
  ELSE Returned(Sentinel, f, 0, {})

\* lines 107-108
process_stripped(f, stripped) ==
  process_found(f, stripped, Find(stripped, LBrace), RFind(stripped, RBrace) + 1)

\* lines 102-134
process_ai_response(f, response_content) ==
  process_stripped(f, Strip(response_content))

\* ------------------------------------------------------------------ the pipeline

\* what goes wrong before the interpreter runs (lines 139, 143, 157, 164), and
\* the exception it raises
fault_error(fault) ==
  CASE fault = "base_image" -> "FileNotFoundError"
    [] fault = "drawing" -> "FileNotFoundError"
    [] fault = "service" -> "APIConnectionError"
    [] fault = "response" -> "IndexError"
    [] OTHER -> ""

Faults == {"base_image", "drawing", "service", "response"}

\* analyze_except with a handler for file errors alone
analyze_except_os_only(e) == IsInstance(e, "OSError")

\* line 174: except Exception
analyze_except(e) == IsInstance(e, "Exception")

\* lines 172-176: the interpreter's result, or the sentinel when it raised
analyze_processed(r) ==
  IF r.kind = "raise" /\ analyze_except(r.exc)
  THEN Returned(Sentinel, r.file, r.writes, r.seen)
  ELSE r

\* lines 138-164 and 174-176: an exception before the interpreter runs
analyze_faulted(f, e) ==
  IF analyze_except(e) THEN Returned(Sentinel, f, 0, {}) ELSE Raised(e, f, 0, {})

\* lines 136-176; fault "no_content" is a message whose content is None
analyze_drawing(f, fault, ai_response) ==
  IF fault_error(fault) # "" THEN analyze_faulted(f, fault_error(fault))
  ELSE IF fault = "no_content" \/ Strip(ai_response) = <<>>
  THEN Returned(Sentinel, f, 0, {})
  ELSE analyze_processed(process_ai_response(f, ai_response))

\* ------------------------------------------------------------------ inputs

\* the name of a drawing
SunPicture == <<"S", "u", "n", " ", "P", "i", "c", "t", "u", "r", "e">>

\* detected_category as the AI may send it: a name, a number, or not at all
CategoryValues == {JStr(n) : n \in Names} \cup {JInt(7), JAbsent}

\* detail_count as the AI may send it
DetailValues ==
  { JInt(4), JInt(-2), JFloat(47), JStr(<<"4">>), JStr(<<"a", "b">>),
    JNull, JList, JAbsent }

\* Name as the AI may send it
NameValues == {JStr(SunPicture), JInt(5), JAbsent}

NoDoc == [present |-> FALSE, category |-> JAbsent, detail |-> JAbsent, title |-> JAbsent]

Docs ==
  { [present |-> TRUE, category |-> c, detail |-> d, title |-> t] :
      c \in CategoryValues, d \in DetailValues, t \in NameValues }

\* the members a document has, in the order the prompt asks for
MembersOf(doc) ==
  (IF doc.title.t = "absent" THEN <<>> ELSE <<Member("Name", doc.title)>>)
  \o (IF doc.category.t = "absent" THEN <<>>
      ELSE <<Member("detected_category", doc.category)>>)
  \o (IF doc.detail.t = "absent" THEN <<>> ELSE <<Member("detail_count", doc.detail)>>)

RECURSIVE Join(_)
Join(ms) ==
  IF Len(ms) <= 1 THEN ms ELSE <<Head(ms), Comma>> \o Join(Tail(ms))

\* the document as the AI writes it, with prose around it
Render(doc) == <<Prose, LBrace>> \o Join(MembersOf(doc)) \o <<RBrace, Prose>>

\* a member for the free texts
AnyMember == Member("detail_count", JInt(4))

\* documents that are not JSON: a missing comma, a trailing comma, a leading
\* comma, two objects
Malformed ==
  { <<LBrace, AnyMember, AnyMember, RBrace>>,
    <<LBrace, AnyMember, Comma, RBrace>>,
    <<LBrace, Comma, AnyMember, RBrace>>,
    <<LBrace, RBrace, Prose, LBrace, RBrace>> }

\* texts of any tokens, with or without braces
FreeTexts == SeqsUpTo({LBrace, RBrace, Space, Prose, AnyMember}, MaxLen) \cup Malformed

\* what the interpreter is handed: the text, and the document it was written from
Inputs ==
  {[text |-> t, doc |-> NoDoc] : t \in FreeTexts}
  \cup {[text |-> Render(d), doc |-> d] : d \in Docs}

\* ------------------------------------------------------------------ state

VARIABLES
  file,      \* the content of art_categories.json
  start,     \* the content the run started from
  pre,       \* the content when the call in progress was made
  call,      \* the call whose result the caller holds: op and arguments
  ret,       \* how that call ended
  writes,    \* how many times that call wrote the file
  resolved   \* the lower-cased names add_category has returned so far

vars == <<file, start, pre, call, ret, writes, resolved>>

NoCall == [op |-> "none", name |-> <<>>, text |-> <<>>, doc |-> NoDoc, fault |-> ""]
NoRet == [kind |-> "none", exc |-> "", val |-> <<>>]

\* stores a run can start from: none, an empty file, ones this program wrote,
\* and ones edited by hand
InitStores ==
  { FileMissing, FileInvalidJson, FileTopList,
    FileObject(CatsOther("absent")),
    FileObject(CatsOther("null")),
    FileObject(CatsOther("int")),
    FileObject(CatsStr(<<"a">>)),
    FileObject(CatsList(<<>>)),
    FileObject(CatsList(<<JStr(<<"a">>)>>)),
    FileObject(CatsList(<<JStr(<<"A">>)>>)),
    FileObject(CatsList(<<JInt(7)>>)),
    FileObject(CatsList(<<JStr(<<"a">>), JInt(7)>>)) }

Init ==
  /\ file \in InitStores
  /\ start = file
  /\ pre = file
  /\ call = NoCall
  /\ ret = NoRet
  /\ writes = 0
  /\ resolved = {}

\* the registry stays within the bound
WithinBound(f) == Len(f.cats.items) <= MaxCats

\* a call c ended as r: the caller holds the result, the file is as r left it
Called(c, r) ==
  /\ WithinBound(r.file)
  /\ call' = c
  /\ ret' = [kind |-> r.kind, exc |-> r.exc, val |-> r.val]
  /\ file' = r.file
  /\ writes' = r.writes
  /\ resolved' = resolved \cup r.seen
  /\ pre' = file
  /\ UNCHANGED start

\* a caller calls add_category(category_name)
AddCategory ==
  /\ call.op = "none"
  /\ \E name \in Names :
       Called([NoCall EXCEPT !.op = "add_category", !.name = name],
              add_category(file, JStr(name)))

\* a caller calls process_ai_response(response_content)
ProcessAiResponse ==
  /\ call.op = "none"
  /\ \E in \in Inputs :
       Called([NoCall EXCEPT !.op = "process_ai_response",
                             !.text = in.text, !.doc = in.doc],
              process_ai_response(file, in.text))

\* a caller calls analyze_drawing(base_image_path, drawing_path); reading an
\* image, the service or its response may fail, or the service answers with a
\* text or with no content
AnalyzeDrawing ==
  /\ call.op = "none"
  /\ \E fault \in Faults \cup {"no_content", ""}, in \in Inputs :
       /\ fault # "" => in.text = <<>>
       /\ Called([NoCall EXCEPT !.op = "analyze_drawing", !.text = in.text,
                                !.doc = in.doc, !.fault = fault],
                 analyze_drawing(file, fault, in.text))

\* the caller takes the result and is ready to call again
Consume ==
  /\ call.op # "none"
  /\ call' = NoCall
  /\ ret' = NoRet
  /\ writes' = 0
  /\ pre' = file
  /\ UNCHANGED <<file, start, resolved>>

Next == AddCategory \/ ProcessAiResponse \/ AnalyzeDrawing \/ Consume

Spec == Init /\ [][Next]_vars

\* ------------------------------------------------------------------ the registry, as a reader sees it

\* the file reads as a list of names: it is missing, not JSON, or an object
\* whose "categories" is absent or a list of strings
Loadable(f) ==
  \/ f.kind \in {"missing", "invalid_json"}
  \/ /\ f.kind = "object"
     /\ f.cats.t \in {"absent", "list"}
     /\ \A i \in DOMAIN f.cats.items : f.cats.items[i].t = "str"

\* the entries of the persisted list
Entries(f) == IF f.kind = "object" /\ f.cats.t = "list" THEN f.cats.items ELSE <<>>

\* the positions of the entries that are n in some case variant
Variants(f, n) ==
  {i \in DOMAIN Entries(f) : Entries(f)[i].t = "str" /\ Lower(Entries(f)[i].s) = n}

\* the registry holds n in some case variant
Holds(f, n) == Variants(f, n) # {}

\* the run started from a registry without n
StartsWithout(n) == Loadable(start) /\ ~Holds(start, n)

\* the run started from an empty or missing store
Fresh(f) ==
  f \in {FileMissing, FileInvalidJson, FileObject(CatsOther("absent")),
         FileObject(CatsList(<<>>))}

IsPrefix(s, t) == Len(s) <= Len(t) /\ SubSeq(t, 1, Len(s)) = s

HasTok(text, t) == \E i \in DOMAIN text : text[i] = t

Interpreting == call.op \in {"process_ai_response", "analyze_drawing"}

\* the document has the fields the prompt asks for, each of its kind
WellTyped(doc) ==
  /\ doc.present
  /\ doc.category.t \in {"str", "absent"}
  /\ doc.detail.t \in {"int", "absent"}
  /\ doc.title.t \in {"str", "absent"}

\* a required field of the wrong kind: a category that is no string, a detail
\* count that is null, a list or a string that is no number
WrongKind(doc) ==
  /\ doc.present
  /\ \/ doc.category.t \notin {"str", "absent"}
     \/ doc.detail.t \in {"null", "list"}
     \/ doc.detail.t = "str" /\ py_int(doc.detail).exc # ""

CategoryOf(doc) == IF doc.category.t = "absent" THEN unknown ELSE Lower(doc.category.s)
DetailOf(doc) == IF doc.detail.t = "absent" THEN 0 ELSE doc.detail.n
TitleOf(doc) == IF doc.title.t = "absent" THEN unknown ELSE doc.title.s

\* ------------------------------------------------------------------ claims

\* C1: started from a registry without a name, the first add_category call
\* with any case variant of the name returns (lower-cased name, 10) and leaves
\* exactly one entry for it, the lower-cased name; every later call with any
\* case variant returns (lower-cased name, 1).
C1_FirstThenLater ==
  [][ (call'.op = "add_category" /\ StartsWithout(Lower(call'.name))) =>
        LET n == Lower(call'.name)
        IN IF n \notin resolved
           THEN /\ ret'.kind = "return"
                /\ ret'.val = <<n, 10>>
                /\ Cardinality(Variants(file', n)) = 1
                /\ \A i \in Variants(file', n) : Entries(file')[i] = JStr(n)
           ELSE /\ ret'.kind = "return"
                /\ ret'.val = <<n, 1>> ]_vars

\* a later call with another case variant of a name first seen in this run
C1_Witness ==
  /\ call.op = "add_category"
  /\ call.name = <<"A", "a">>
  /\ StartsWithout(<<"a", "a">>)
  /\ ret.val = <<(<<"a", "a">>), 1>>

\* C2: process_ai_response never raises; when the document does not parse or
\* a required field is of the wrong kind it returns the sentinel.  Stated for
\* a store that loads, so that a failure is the interpreter's own.
C2_NeverRaises ==
  (call.op = "process_ai_response" /\ Loadable(pre)) =>
    /\ ret.kind = "return"
    /\ (call.text \in Malformed \/ WrongKind(call.doc)) => ret.val = Sentinel

\* C3: a store that is missing, not JSON or of an invalid structure is an
\* empty registry to add_category: the call returns (name, 10) and the file
\* then holds that name alone.
C3_ReadFailureIsEmpty ==
  (call.op = "add_category" /\ (pre.kind # "object" \/ ~Loadable(pre))) =>
    /\ ret.kind = "return"
    /\ ret.val = <<Lower(call.name), 10>>
    /\ file = FileObject(CatsList(<<JStr(Lower(call.name))>>))

\* C4: analyze_drawing never raises, and returns the sentinel whenever
\* reading an image, the service call, reading its response or the
\* interpreter raises.
C4_NeverPropagates ==
  call.op = "analyze_drawing" =>
    /\ ret.kind = "return"
    /\ ( \/ call.fault \in Faults
         \/ call.fault = "" /\ Strip(call.text) # <<>>
              /\ process_ai_response(pre, call.text).kind = "raise" )
       => ret.val = Sentinel

\* the service call raised
C4_Witness ==
  /\ call.op = "analyze_drawing"
  /\ call.fault = "service"
  /\ ret.kind = "return"
  /\ ret.val = Sentinel

\* C5: for a document that parses and has well-typed fields the total is the
\* category's novelty score (10 when the registry did not hold it, else 1)
\* plus the detail count; "Landscape" with 4 details gives 14 at first and 5
\* after.
C5_TotalScore ==
  (call.op = "process_ai_response" /\ WellTyped(call.doc) /\ Loadable(pre)) =>
    LET score == IF Holds(pre, CategoryOf(call.doc)) THEN 1 ELSE 10
    IN /\ ret.kind = "return"
       /\ ret.val = <<score + DetailOf(call.doc), CategoryOf(call.doc),
                      DetailOf(call.doc), TitleOf(call.doc)>>
       /\ (call.doc.category = JStr(Landscape) /\ call.doc.detail = JInt(4)
             /\ call.doc.title = JStr(SunPicture))
          => ret.val = <<IF Holds(pre, landscape) THEN 5 ELSE 14,
                         landscape, 4, SunPicture>>

\* the later call of the example, in a run that started with no category
C5_Witness ==
  /\ call.op = "process_ai_response"
  /\ Fresh(start)
  /\ call.doc.category = JStr(Landscape)
  /\ ret.kind = "return"
  /\ ret.val = <<5, landscape, 4, SunPicture>>

\* C6: the detail score of every returned tuple is an integer >= 0.
C6_DetailNonNegative ==
  (Interpreting /\ ret.kind = "return") => ret.val[3] >= 0

\* C7: add_category writes the file exactly once, the list with the name
\* appended, when the registry does not hold the name, and does not write and
\* leaves the file as it was when the registry holds it.
C7_WriteOnce ==
  (call.op = "add_category" /\ Loadable(pre)) =>
    IF Holds(pre, Lower(call.name))
    THEN writes = 0 /\ file = pre
    ELSE /\ writes = 1
         /\ file = FileObject(CatsList(Append(Entries(pre), JStr(Lower(call.name)))))

\* a known category asked for again in another case
C7_Witness ==
  /\ call.op = "add_category"
  /\ Loadable(pre)
  /\ Holds(pre, Lower(call.name))
  /\ call.name # Lower(call.name)
  /\ Len(Entries(pre)) = 2
  /\ writes = 0

\* C8: a text without "{" or without "}" gives exactly the sentinel.
C8_NoBraces ==
  (call.op = "process_ai_response"
     /\ (~HasTok(call.text, LBrace) \/ ~HasTok(call.text, RBrace)))
  => ret.kind = "return" /\ ret.val = Sentinel

\* a text with "{" and a member but no "}"
C8_Witness ==
  /\ call.op = "process_ai_response"
  /\ call.text = <<LBrace, AnyMember>>
  /\ ret.val = Sentinel

\* C9: started from an empty or missing store, the persisted list holds only
\* lower-cased names, no two equal after case-folding, and a call only ever
\* appends to it.
C9_Registry ==
  Fresh(start) =>
    /\ Loadable(file)
    /\ \A i \in DOMAIN Entries(file) : Lower(Entries(file)[i].s) = Entries(file)[i].s
    /\ \A i, j \in DOMAIN Entries(file) :
         Lower(Entries(file)[i].s) = Lower(Entries(file)[j].s) => i = j
    /\ IsPrefix(Entries(pre), Entries(file))

\* a second name stored, given in upper case
C9_Witness ==
  /\ Fresh(start)
  /\ call.op = "add_category"
  /\ call.name = <<"A", "A">>
  /\ writes = 1
  /\ Len(Entries(file)) = 2

\* C10: a call of the interpreter or the pipeline that returns the sentinel or
\* raises leaves the registry as it was.
C10_FailureLeavesRegistry ==
  (Interpreting /\ (ret.kind = "raise" \/ ret.val = Sentinel)) => file = pre

====
